---- MODULE Spec2Model ----
(***************************************************************************)
(* Model of src/app.py: the session state of the no-code data formatter    *)
(* (original table, rename map, value-rule map, cached result) and its     *)
(* handlers (add / delete rename, add / delete value rule, apply mapping   *)
(* table, run pipeline, reset).  Cells are tagged values, columns carry    *)
(* the pandas dtype that decides which branch of the pipeline is taken.    *)
(***************************************************************************)
EXTENDS Integers, Sequences, FiniteSets, TLC

\* ------------------------------------------------------------------ cells
\* A cell is a runtime value: t is type(value).__name__ ("int", "float",
\* "str") or "nan" for a missing cell (NaN / <NA>); floats are held in tenths.
I(k) == [t |-> "int", n |-> k, s |-> ""]
F(k) == [t |-> "float", n |-> k, s |-> ""]
S(x) == [t |-> "str", n |-> 0, s |-> x]
NaN == [t |-> "nan", n |-> 0, s |-> ""]

IsMissing(c) == c.t = "nan"

\* float(text): ok = FALSE is ValueError; inf / nan are the special floats.
NoParse == [ok |-> FALSE, inf |-> FALSE, nan |-> FALSE, v |-> 0]
Fin(k) == [ok |-> TRUE, inf |-> FALSE, nan |-> FALSE, v |-> k]
ParseFloat(x) ==
  CASE x = "13" -> Fin(130)
    [] x = "13.0" -> Fin(130)
    [] x = "5" -> Fin(50)
    [] x = "5.0" -> Fin(50)
    [] x = "3.7" -> Fin(37)
    [] x = "3" -> Fin(30)
    [] x = "inf" -> [ok |-> TRUE, inf |-> TRUE, nan |-> FALSE, v |-> 0]
    [] x = "nan" -> [ok |-> TRUE, inf |-> FALSE, nan |-> TRUE, v |-> 0]
    [] OTHER -> NoParse

\* str(int)
IntStr(k) ==
  CASE k = 13 -> "13"
    [] k = 5 -> "5"
    [] k = 3 -> "3"
    [] OTHER -> "?"

\* str(float), the float given in tenths
FloatStr(k) ==
  CASE k = 130 -> "13.0"
    [] k = 50 -> "5.0"
    [] k = 37 -> "3.7"
    [] k = 30 -> "3.0"
    [] OTHER -> "?"

\* str(value) as astype(str) and str(old_value) compute it
Str(c) ==
  CASE c.t = "int" -> IntStr(c.n)
    [] c.t = "float" -> FloatStr(c.n)
    [] c.t = "str" -> c.s
    [] OTHER -> "nan"

\* int(x) of a finite float in tenths: truncation toward zero
Trunc(k) == IF k >= 0 THEN k \div 10 ELSE -((-k) \div 10)

IsIntegral(k) == k % 10 = 0

\* The number a non-missing numeric cell holds, in tenths
Tenths(c) == IF c.t = "int" THEN 10 * c.n ELSE c.n

\* ------------------------------------------------------ convert_value_by_type
\* The value a rule stores for the text typed by the user, and whether the
\* conversion raised (st.warning, the raw text is returned).
CoercionFails(value, target_type) ==
  /\ target_type \in {"int", "float"}
  /\ LET p == ParseFloat(value)
     IN \/ ~p.ok
        \/ target_type = "int" /\ (p.inf \/ p.nan)

convert_value_by_type(value, target_type) ==
  IF CoercionFails(value, target_type) THEN S(value)
  ELSE CASE target_type = "int" -> I(Trunc(ParseFloat(value).v))
         [] target_type = "float" ->
              IF ParseFloat(value).nan THEN NaN ELSE F(ParseFloat(value).v)
         [] OTHER -> S(value)

\* ----------------------------------------------------------------- tables
\* A table is a sequence of columns [name, dtype, cells]; dtype is the pandas
\* dtype of the column: "int64", "float64", "object" after read_csv, and
\* "Int64", "category", "string" after a column-wide cast.
Col(name, dtype, cells) == [name |-> name, dtype |-> dtype, cells |-> cells]

ColumnNames(tbl) == {tbl[i].name : i \in 1..Len(tbl)}

Occurrences(tbl, name) == {i \in 1..Len(tbl) : tbl[i].name = name}

\* Position of the column called name (names are unique before the rename)
ColumnIndex(tbl, name) == CHOOSE i \in 1..Len(tbl) : tbl[i].name = name

is_numeric_dtype(dtype) == dtype \in {"int64", "float64"}

is_integer_dtype(dtype) == dtype = "int64"

CountTrue(mask) == Cardinality({i \in 1..Len(mask) : mask[i]})

\* result_df.loc[mask, column] = new_val: the cells under the mask are
\* replaced; a value the dtype cannot hold upcasts the whole column.
SetCells(col, mask, new_val) ==
  LET put(conv, keep) ==
        [i \in 1..Len(col.cells) |->
           IF mask[i] THEN conv ELSE keep[i]]
      asFloat == [i \in 1..Len(col.cells) |->
                    IF col.cells[i].t = "int" THEN F(10 * col.cells[i].n)
                    ELSE col.cells[i]]
  IN IF CountTrue(mask) = 0 THEN col
     ELSE CASE col.dtype = "int64" /\ new_val.t = "int" ->
                 Col(col.name, "int64", put(new_val, col.cells))
            [] col.dtype = "int64" /\ new_val.t = "float" /\ IsIntegral(new_val.n) ->
                 Col(col.name, "int64", put(I(new_val.n \div 10), col.cells))
            [] col.dtype = "int64" /\ new_val.t = "float" /\ ~IsIntegral(new_val.n) ->
                 Col(col.name, "float64", put(new_val, asFloat))
            [] col.dtype = "float64" /\ new_val.t = "int" ->
                 Col(col.name, "float64", put(F(10 * new_val.n), col.cells))
            [] col.dtype = "float64" /\ new_val.t \in {"float", "nan"} ->
                 Col(col.name, "float64", put(new_val, col.cells))
            [] OTHER ->
                 Col(col.name, "object", put(new_val, col.cells))

\* ------------------------------------------------- substitution of one rule
\* (result_df[column] == old_val): old_val is the text key, so only a cell
\* that is itself that text compares equal.
before_count(col, old_val) ==
  CountTrue([i \in 1..Len(col.cells) |->
               col.cells[i].t = "str" /\ col.cells[i].s = old_val])

\* result_df[column].astype(str) == str(old_val)
StringMask(col, old_val) ==
  [i \in 1..Len(col.cells) |-> Str(col.cells[i]) = old_val]

\* result_df[column] == old_val_converted, the key re-parsed as a number
NumericMask(col, tenths) ==
  [i \in 1..Len(col.cells) |->
     col.cells[i].t \in {"int", "float"} /\ Tenths(col.cells[i]) = tenths]

NoneMask(col) == [i \in 1..Len(col.cells) |-> FALSE]

\* int(float(old_val)) raises OverflowError, which the handler's
\* except (ValueError, TypeError) does not catch.
KeyOverflows(col, old_val) ==
  /\ is_integer_dtype(col.dtype)
  /\ ParseFloat(old_val).ok
  /\ ParseFloat(old_val).inf

\* The numeric branch is taken and the re-parse of the key succeeds
KeyReparses(col, old_val) ==
  /\ is_numeric_dtype(col.dtype)
  /\ ParseFloat(old_val).ok
  /\ ~(is_integer_dtype(col.dtype) /\ ParseFloat(old_val).nan)

\* The mask the handler replaces under
RuleMask(col, old_val) ==
  IF KeyReparses(col, old_val)
  THEN LET p == ParseFloat(old_val)
       IN IF p.inf \/ p.nan THEN NoneMask(col)
          ELSE IF is_integer_dtype(col.dtype)
               THEN NumericMask(col, 10 * Trunc(p.v))
               ELSE NumericMask(col, p.v)
  ELSE StringMask(col, old_val)

LogEntry(column, old_val, new_val, converted, expected) ==
  [column |-> column, old_val |-> old_val, new_val |-> new_val,
   converted_count |-> converted, expected_count |-> expected]

\* ------------------------------------------------------------ value_changes
\* value_changes is a dict of dicts; both keep insertion order, and writing
\* an existing key keeps the key's place.  It is a sequence of
\* [column, changes], changes a sequence of [key, value, type].
Change(key, value, type) == [key |-> key, value |-> value, type |-> type]

HasColumn(vc, column) == \E i \in 1..Len(vc) : vc[i].column = column

ChangesOf(vc, column) ==
  IF HasColumn(vc, column)
  THEN vc[CHOOSE i \in 1..Len(vc) : vc[i].column = column].changes
  ELSE <<>>

HasKey(changes, key) == \E j \in 1..Len(changes) : changes[j].key = key

\* changes[key] = change
SetKey(changes, change) ==
  IF HasKey(changes, change.key)
  THEN [j \in 1..Len(changes) |->
          IF changes[j].key = change.key THEN change ELSE changes[j]]
  ELSE Append(changes, change)

\* value_changes[column][key] = change, creating value_changes[column]
SetRule(vc, column, change) ==
  IF HasColumn(vc, column)
  THEN [i \in 1..Len(vc) |->
          IF vc[i].column = column
          THEN [vc[i] EXCEPT !.changes = SetKey(@, change)]
          ELSE vc[i]]
  ELSE Append(vc, [column |-> column, changes |-> <<change>>])

\* del value_changes[column][key], and the column's entry once it is empty
DelRule(vc, column, key) ==
  LET cut == [i \in 1..Len(vc) |->
                IF vc[i].column = column
                THEN [vc[i] EXCEPT !.changes = SelectSeq(@, LAMBDA c : c.key # key)]
                ELSE vc[i]]
  IN SelectSeq(cut, LAMBDA e : e.changes # <<>>)

RuleCount(vc) ==
  LET RECURSIVE sum(_)
      sum(i) == IF i = 0 THEN 0 ELSE Len(vc[i].changes) + sum(i - 1)
  IN sum(Len(vc))

\* The rules in the order the substitution loop visits them
RECURSIVE FlatRules(_)
FlatRules(vc) ==
  IF vc = <<>> THEN <<>>
  ELSE [j \in 1..Len(Head(vc).changes) |->
          [column |-> Head(vc).column,
           key |-> Head(vc).changes[j].key,
           value |-> Head(vc).changes[j].value,
           type |-> Head(vc).changes[j].type]]
       \o FlatRules(Tail(vc))

\* -------------------------------------------------------- substitution loop
\* One pass of the loop body for rule r on the running state
\* st = [tbl, log, raised]; raised is an exception that leaves the handler.
ApplyRule(st, r) ==
  IF st.raised \/ r.column \notin ColumnNames(st.tbl) THEN st
  ELSE LET k == ColumnIndex(st.tbl, r.column)
           col == st.tbl[k]
           mask == RuleMask(col, r.key)
       IN IF KeyOverflows(col, r.key)
          THEN [st EXCEPT !.raised = TRUE]
          ELSE [tbl |-> [st.tbl EXCEPT ![k] = SetCells(col, mask, r.value)],
                log |-> Append(st.log,
                               LogEntry(r.column, r.key, r.value,
                                        CountTrue(mask),
                                        before_count(col, r.key))),
                raised |-> FALSE]

RECURSIVE SubstituteLoop(_, _)
SubstituteLoop(rules, st) ==
  IF rules = <<>> THEN st
  ELSE SubstituteLoop(Tail(rules), ApplyRule(st, Head(rules)))

Substitute(tbl, vc) ==
  SubstituteLoop(FlatRules(vc), [tbl |-> tbl, log |-> <<>>, raised |-> FALSE])

\* ------------------------------------------------ apply_column_type_conversion
\* column_types[column]: the type of the rule the iteration over
\* value_changes[column] visits last
column_types(tbl, vc) ==
  [c \in {vc[i].column : i \in 1..Len(vc)} \cap ColumnNames(tbl) |->
     ChangesOf(vc, c)[Len(ChangesOf(vc, c))].type]

\* pd.to_numeric(errors='coerce') of one cell: a number or missing
ToNumeric(c) ==
  CASE c.t \in {"int", "float"} -> c
    [] c.t = "str" /\ ParseFloat(c.s).ok /\ ~ParseFloat(c.s).nan
                   /\ ~ParseFloat(c.s).inf -> F(ParseFloat(c.s).v)
    [] OTHER -> NaN

\* astype('Int64') raises on a value that is not a whole number
Int64Raises(col) ==
  \E i \in 1..Len(col.cells) :
     LET x == ToNumeric(col.cells[i])
     IN \/ ~IsMissing(x) /\ ~IsIntegral(Tenths(x))
        \/ col.cells[i].t = "str" /\ ParseFloat(col.cells[i].s).inf

CastColumn(col, target_type) ==
  CASE target_type = "int" ->
         IF Int64Raises(col) THEN col
         ELSE Col(col.name, "Int64",
                  [i \in 1..Len(col.cells) |->
                     IF IsMissing(ToNumeric(col.cells[i])) THEN NaN
                     ELSE I(Tenths(ToNumeric(col.cells[i])) \div 10)])
    [] target_type = "float" ->
         Col(col.name, "float64",
             [i \in 1..Len(col.cells) |->
                IF IsMissing(ToNumeric(col.cells[i])) THEN NaN
                ELSE F(Tenths(ToNumeric(col.cells[i])))])
    [] target_type = "factor" ->
         Col(col.name, "category",
             [i \in 1..Len(col.cells) |-> S(Str(col.cells[i]))])
    [] target_type = "string" ->
         Col(col.name, "string",
             [i \in 1..Len(col.cells) |->
                IF IsMissing(col.cells[i]) THEN NaN ELSE S(Str(col.cells[i]))])
    [] OTHER -> col

apply_column_type_conversion(tbl, vc) ==
  [i \in 1..Len(tbl) |->
     IF tbl[i].name \in DOMAIN column_types(tbl, vc)
     THEN CastColumn(tbl[i], column_types(tbl, vc)[tbl[i].name])
     ELSE tbl[i]]

\* ------------------------------------------------------------------ rename
\* Mutant: the renamed labels are used as dict keys, so of two columns that
\* end up with the same label only the last survives.
RenameColumns_DropsClash(tbl, renames) ==
  LET r == [i \in 1..Len(tbl) |->
              IF tbl[i].name \in DOMAIN renames
              THEN [tbl[i] EXCEPT !.name = renames[tbl[i].name]]
              ELSE tbl[i]]
  IN SelectSeq(r, LAMBDA c :
       c = r[CHOOSE i \in 1..Len(r) :
               r[i].name = c.name /\ \A j \in 1..Len(r) : r[j].name = c.name => j <= i])

\* result_df.rename(columns=column_renames): labels only
RenameColumns(tbl, renames) ==
  [i \in 1..Len(tbl) |->
     IF tbl[i].name \in DOMAIN renames
     THEN [tbl[i] EXCEPT !.name = renames[tbl[i].name]]
     ELSE tbl[i]]

\* ------------------------------------------- check_column_type_consistency
TypeTags(col) ==
  {col.cells[i].t : i \in {j \in 1..Len(col.cells) : ~IsMissing(col.cells[j])}}

\* Mutant: the missing cells are not dropped before the types are counted
check_counts_missing(tbl, column_name) ==
  IF Cardinality(Occurrences(tbl, column_name)) > 1 THEN TRUE
  ELSE LET col == tbl[ColumnIndex(tbl, column_name)]
       IN Cardinality({col.cells[i].t : i \in 1..Len(col.cells)}) <= 1

\* df[column_name] is a DataFrame when the label occurs twice; iterating it
\* yields the labels, which are all str.
check_column_type_consistency(tbl, column_name) ==
  IF Cardinality(Occurrences(tbl, column_name)) > 1 THEN TRUE
  ELSE Cardinality(TypeTags(tbl[ColumnIndex(tbl, column_name)])) <= 1

\* type_errors: one entry per label of result_df.columns that is flagged
TypeErrors(tbl) ==
  SelectSeq([i \in 1..Len(tbl) |-> tbl[i].name],
            LAMBDA name : ~check_column_type_consistency(tbl, name))

\* conversion_errors: the log entries whose two counts differ
ConversionErrors(log) ==
  SelectSeq(log, LAMBDA e : e.converted_count # e.expected_count)

\* --------------------------------------------------- parse_conversion_table
\* A mapping-table row; Blank is an empty spreadsheet cell (NaN or '').
Blank == ""

Row(co, cn, ty, ov, nv) ==
  [col_original |-> co, col_new |-> cn, data_type |-> ty,
   original_value |-> ov, new_value |-> nv]

NoRenames == [k \in {} |-> ""]

\* column_renames[old] = new
SetRename(renames, old, new) ==
  [k \in DOMAIN renames \cup {old} |-> IF k = old THEN new ELSE renames[k]]

\* del column_renames[old]
DelRename(renames, old) == [k \in DOMAIN renames \ {old} |-> renames[k]]

RowRenames(row) ==
  row.col_original # Blank /\ row.col_new # Blank /\ row.col_original # row.col_new

RowHasRule(row) == row.original_value # Blank /\ row.new_value # Blank

\* target_column = col_new if pd.notna(col_new) else col_original
target_column(row) == IF row.col_new # Blank THEN row.col_new ELSE row.col_original

\* One pass of the loop body over a row, on acc = [renames, changes]
ParseRow(acc, row) ==
  [renames |-> IF RowRenames(row)
               THEN SetRename(acc.renames, row.col_original, row.col_new)
               ELSE acc.renames,
   changes |-> IF RowHasRule(row)
               THEN SetRule(acc.changes, target_column(row),
                            Change(row.original_value,
                                   convert_value_by_type(row.new_value, row.data_type),
                                   row.data_type))
               ELSE acc.changes]

RECURSIVE ParseRows(_, _)
ParseRows(rows, acc) ==
  IF rows = <<>> THEN acc ELSE ParseRows(Tail(rows), ParseRow(acc, Head(rows)))

parse_conversion_table(rows) ==
  ParseRows(rows, [renames |-> NoRenames, changes |-> <<>>])

\* ------------------------------------------------------------------ bounds
\* Declarations (add / delete / apply mapping table) explored per session
MaxEdits == 3

\* ------------------------------------------------------------------ inputs
\* Uploaded tables, as pd.read_csv returns them.  Table2's txt column holds
\* an int and text: read_csv (low_memory) infers types chunk by chunk and
\* leaves such a column object-typed with both.
Table1 ==
  << Col("num", "int64", <<I(13), I(13), I(5)>>),
     Col("txt", "object", <<S("x"), S("5"), S("x")>>) >>

Table2 ==
  << Col("num", "float64", <<F(37), F(130), NaN>>),
     Col("txt", "object", <<I(13), S("x"), S("x")>>) >>

Tables == {Table1, Table2}

\* Text typed as a new column name / a new value; selectable target types
NewNames == {"id", "txt"}

\* <<new value typed, target type selected>> of an added rule
RuleInputs == {<<"abc", "int">>, <<"5", "factor">>, <<"5", "string">>}

\* Uploaded mapping tables
ConversionTables ==
  { << Row("num", "num", "factor", "13", "abc") >>,
    << Row("num", "id", "string", Blank, Blank),
       Row("num", "id", "factor", "13", "abc") >>,
    << Row("txt", Blank, "int", "x", "5") >>,
    << Row("num", "num", "int", "inf", "5") >> }

\* get_unique_values: the non-missing values of the column
get_unique_values(tbl, column) ==
  LET col == tbl[ColumnIndex(tbl, column)]
  IN {col.cells[i] : i \in {j \in 1..Len(col.cells) : ~IsMissing(col.cells[j])}}

\* ------------------------------------------------------------------- state
VARIABLES
  df,                \* st.session_state.df: the original table
  column_renames,    \* st.session_state.column_renames
  value_changes,     \* st.session_state.value_changes
  has_result,        \* 'result_df' in st.session_state
  result_df,         \* st.session_state.result_df (<<>> when absent)
  pc,                \* position of the run handler
  work,              \* the handler's local result_df
  conversion_log,    \* the handler's local conversion_log
  cast_types,        \* column_types of the last cast
  type_errors,       \* the handler's local type_errors
  conversion_errors, \* the handler's local conversion_errors
  prev_log,          \* history: the log of the run just before this one
  rerun,             \* history: this run repeats the previous one unchanged
  declared,          \* history: <<column, key>> by latest declaration
  applied_rows,      \* history: the mapping table the rules came from
  reset_from,        \* history: what the last handler, a reset, cleared
  edits              \* declarations made so far

vars ==
  <<df, column_renames, value_changes, has_result, result_df, pc, work,
    conversion_log, cast_types, type_errors, conversion_errors, prev_log,
    rerun, declared, applied_rows, reset_from, edits>>

Resting == {"Idle", "Done", "Aborted"}

InRunStages == {"Init", "Substitute", "CastColumns", "Rename", "CheckConsistency"}

NoReset == [renames |-> 0, rules |-> 0, had_result |-> FALSE, done |-> FALSE]

NoTypes == [c \in {} |-> ""]

Init ==
  /\ df \in Tables
  /\ column_renames = NoRenames
  /\ value_changes = <<>>
  /\ has_result = FALSE
  /\ result_df = <<>>
  /\ pc = "Idle"
  /\ work = <<>>
  /\ conversion_log = <<>>
  /\ cast_types = NoTypes
  /\ type_errors = <<>>
  /\ conversion_errors = <<>>
  /\ prev_log = <<>>
  /\ rerun = FALSE
  /\ declared = <<>>
  /\ applied_rows = <<>>
  /\ reset_from = NoReset
  /\ edits = 0

\* The script reruns after a declaration: the run handler's locals are gone
LocalsGone ==
  /\ pc' = "Idle"
  /\ work' = <<>>
  /\ conversion_log' = <<>>
  /\ cast_types' = NoTypes
  /\ type_errors' = <<>>
  /\ conversion_errors' = <<>>
  /\ prev_log' = <<>>
  /\ rerun' = FALSE
  /\ reset_from' = NoReset

CanEdit == pc \in Resting /\ edits < MaxEdits

\* declared with <<column, key>> moved to the end
Redeclare(d, column, key) ==
  Append(SelectSeq(d, LAMBDA e : e # <<column, key>>), <<column, key>>)

\* "列名を変更"
AddRename ==
  \E target \in ColumnNames(df), new_column_name \in NewNames :
    /\ CanEdit
    /\ column_renames' = SetRename(column_renames, target, new_column_name)
    /\ edits' = edits + 1
    /\ LocalsGone
    /\ UNCHANGED <<df, value_changes, has_result, result_df, declared, applied_rows>>

\* "削除" of a rename
DeleteRename ==
  \E old_name \in DOMAIN column_renames :
    /\ CanEdit
    /\ column_renames' = DelRename(column_renames, old_name)
    /\ edits' = edits + 1
    /\ LocalsGone
    /\ UNCHANGED <<df, value_changes, has_result, result_df, declared, applied_rows>>

\* "追加" of a value rule
AddValueRule ==
  \E column \in ColumnNames(df), input \in RuleInputs :
    \E old_value \in get_unique_values(df, column) :
      /\ CanEdit
      /\ value_changes' =
           SetRule(value_changes, column,
                   Change(Str(old_value),
                          convert_value_by_type(input[1], input[2]),
                          input[2]))
      /\ declared' = Redeclare(declared, column, Str(old_value))
      /\ applied_rows' = <<>>
      /\ edits' = edits + 1
      /\ LocalsGone
      /\ UNCHANGED <<df, column_renames, has_result, result_df>>

\* "削除" of a value rule
DeleteValueRule ==
  \E i \in 1..Len(value_changes) :
    \E j \in 1..Len(value_changes[i].changes) :
      /\ CanEdit
      /\ value_changes' =
           DelRule(value_changes, value_changes[i].column,
                   value_changes[i].changes[j].key)
      /\ declared' =
           SelectSeq(declared,
                     LAMBDA e : e # <<value_changes[i].column,
                                      value_changes[i].changes[j].key>>)
      /\ applied_rows' = <<>>
      /\ edits' = edits + 1
      /\ LocalsGone
      /\ UNCHANGED <<df, column_renames, has_result, result_df>>

RECURSIVE DeclaredByRows(_, _)
DeclaredByRows(rows, d) ==
  IF rows = <<>> THEN d
  ELSE DeclaredByRows(Tail(rows),
                      IF RowHasRule(Head(rows))
                      THEN Redeclare(d, target_column(Head(rows)),
                                     Head(rows).original_value)
                      ELSE d)

\* "変換表を適用"
ApplyConversionTable ==
  \E rows \in ConversionTables :
    /\ CanEdit
    /\ column_renames' = parse_conversion_table(rows).renames
    /\ value_changes' = parse_conversion_table(rows).changes
    /\ declared' = DeclaredByRows(rows, <<>>)
    /\ applied_rows' = rows
    /\ edits' = edits + 1
    /\ LocalsGone
    /\ UNCHANGED <<df, has_result, result_df>>

\* Mutant: the reset forgets to delete the cached result
Reset_KeepsResult ==
  /\ pc \in Resting
  /\ column_renames' = NoRenames
  /\ value_changes' = <<>>
  /\ declared' = <<>>
  /\ applied_rows' = <<>>
  /\ pc' = "Idle"
  /\ work' = <<>>
  /\ conversion_log' = <<>>
  /\ cast_types' = NoTypes
  /\ type_errors' = <<>>
  /\ conversion_errors' = <<>>
  /\ prev_log' = <<>>
  /\ rerun' = FALSE
  /\ reset_from' = [renames |-> Cardinality(DOMAIN column_renames),
                    rules |-> RuleCount(value_changes),
                    had_result |-> has_result,
                    done |-> TRUE]
  /\ UNCHANGED <<df, edits, has_result, result_df>>

\* "設定をリセット"
Reset ==
  /\ pc \in Resting
  /\ column_renames' = NoRenames
  /\ value_changes' = <<>>
  /\ has_result' = FALSE
  /\ result_df' = <<>>
  /\ declared' = <<>>
  /\ applied_rows' = <<>>
  /\ pc' = "Idle"
  /\ work' = <<>>
  /\ conversion_log' = <<>>
  /\ cast_types' = NoTypes
  /\ type_errors' = <<>>
  /\ conversion_errors' = <<>>
  /\ prev_log' = <<>>
  /\ rerun' = FALSE
  /\ reset_from' = [renames |-> Cardinality(DOMAIN column_renames),
                    rules |-> RuleCount(value_changes),
                    had_result |-> has_result,
                    done |-> TRUE]
  /\ UNCHANGED <<df, edits>>

\* Mutant: the run goes on from the cached result instead of the original
RunInit_FromResult ==
  /\ pc \in Resting
  /\ pc' = "Init"
  /\ work' = IF has_result THEN result_df ELSE df
  /\ conversion_log' = <<>>
  /\ cast_types' = NoTypes
  /\ type_errors' = <<>>
  /\ conversion_errors' = <<>>
  /\ prev_log' = IF pc = "Done" THEN conversion_log ELSE <<>>
  /\ rerun' = (pc = "Done")
  /\ reset_from' = NoReset
  /\ UNCHANGED <<df, column_renames, value_changes, has_result, result_df,
                 declared, applied_rows, edits>>

\* "変換を実行": result_df = df.copy(); conversion_log = []
RunInit ==
  /\ pc \in Resting
  /\ pc' = "Init"
  /\ work' = df
  /\ conversion_log' = <<>>
  /\ cast_types' = NoTypes
  /\ type_errors' = <<>>
  /\ conversion_errors' = <<>>
  /\ prev_log' = IF pc = "Done" THEN conversion_log ELSE <<>>
  /\ rerun' = (pc = "Done")
  /\ reset_from' = NoReset
  /\ UNCHANGED <<df, column_renames, value_changes, has_result, result_df,
                 declared, applied_rows, edits>>

RunFrame ==
  UNCHANGED <<df, column_renames, value_changes, declared, applied_rows,
              edits, prev_log, rerun, reset_from>>

\* Mutant: the loop works on the session's table itself, not on a copy
RunSubstitute_Aliased ==
  /\ pc = "Init"
  /\ LET st == Substitute(work, value_changes)
     IN IF st.raised
        THEN /\ pc' = "Aborted"
             /\ work' = <<>>
             /\ conversion_log' = <<>>
             /\ df' = st.tbl
        ELSE /\ pc' = "Substitute"
             /\ work' = st.tbl
             /\ conversion_log' = st.log
             /\ df' = st.tbl
  /\ UNCHANGED <<column_renames, value_changes, declared, applied_rows,
                 edits, prev_log, rerun, reset_from>>
  /\ UNCHANGED <<has_result, result_df, cast_types, type_errors, conversion_errors>>

\* The substitution loop; an exception it does not catch ends the handler
\* in the outer except, with nothing stored.
RunSubstitute ==
  /\ pc = "Init"
  /\ LET st == Substitute(work, value_changes)
     IN IF st.raised
        THEN /\ pc' = "Aborted"
             /\ work' = <<>>
             /\ conversion_log' = <<>>
        ELSE /\ pc' = "Substitute"
             /\ work' = st.tbl
             /\ conversion_log' = st.log
  /\ RunFrame
  /\ UNCHANGED <<has_result, result_df, cast_types, type_errors, conversion_errors>>

\* result_df = apply_column_type_conversion(result_df, value_changes)
RunCastColumns ==
  /\ pc = "Substitute"
  /\ pc' = "CastColumns"
  /\ work' = apply_column_type_conversion(work, value_changes)
  /\ cast_types' = column_types(work, value_changes)
  /\ RunFrame
  /\ UNCHANGED <<has_result, result_df, conversion_log, type_errors, conversion_errors>>

\* result_df = result_df.rename(columns=column_renames)
RunRename ==
  /\ pc = "CastColumns"
  /\ pc' = "Rename"
  /\ work' = RenameColumns(work, column_renames)
  /\ RunFrame
  /\ UNCHANGED <<has_result, result_df, conversion_log, cast_types,
                 type_errors, conversion_errors>>

\* type_errors and conversion_errors
RunCheckConsistency ==
  /\ pc = "Rename"
  /\ pc' = "CheckConsistency"
  /\ type_errors' = TypeErrors(work)
  /\ conversion_errors' = ConversionErrors(conversion_log)
  /\ RunFrame
  /\ UNCHANGED <<has_result, result_df, work, conversion_log, cast_types>>

\* st.session_state.result_df = result_df, on both branches
RunStore ==
  /\ pc = "CheckConsistency"
  /\ pc' = "Done"
  /\ has_result' = TRUE
  /\ result_df' = work
  /\ RunFrame
  /\ UNCHANGED <<work, conversion_log, cast_types, type_errors, conversion_errors>>

Next ==
  \/ AddRename
  \/ DeleteRename
  \/ AddValueRule
  \/ DeleteValueRule
  \/ ApplyConversionTable
  \/ Reset
  \/ RunInit
  \/ RunSubstitute
  \/ RunCastColumns
  \/ RunRename
  \/ RunCheckConsistency
  \/ RunStore

Spec == Init /\ [][Next]_vars

\* ------------------------------------------------------------------ claims
\* The successor of each stage in the linear order of the run
NextStage ==
  [x \in Resting \cup InRunStages |->
     CASE x \in Resting -> "Init"
       [] x = "Init" -> "Substitute"
       [] x = "Substitute" -> "CastColumns"
       [] x = "CastColumns" -> "Rename"
       [] x = "Rename" -> "CheckConsistency"
       [] OTHER -> "Done"]

\* C1: every pipeline run goes through Init, Substitute, CastColumns, Rename,
\* CheckConsistency, Done in that order, no stage skipped, repeated or
\* revisited, each stage working on the table the previous one produced, so
\* that the consistency check sees the renamed, cast, substituted table.
C1_LinearStages ==
  [][/\ (pc # pc' /\ (pc \notin Resting \/ pc' # "Idle")) => pc' = NextStage[pc]
     /\ pc' = "CheckConsistency" =>
          work' = RenameColumns(
                    apply_column_type_conversion(
                      Substitute(df, value_changes).tbl, value_changes),
                    column_renames)]_vars

\* A run in which no exception leaves the substitution loop keeps the order
C1_OrderUnlessRaised ==
  [][(pc # pc' /\ (pc \notin Resting \/ pc' # "Idle") /\ pc' # "Aborted")
       => pc' = NextStage[pc]]_vars

\* C2: every run that ends has stored the table it produced as the cached
\* result, with or without errors; none ends with the cached result
\* missing or still the previous run's table.
C2_EveryRunStoresResult ==
  pc \in {"Done", "Aborted"} => has_result /\ result_df = work /\ work # <<>>

\* C3: for every applied rule the logged matched_count equals before_count,
\* so no substitution-mismatch error is reported.
C3_MatchedEqualsBefore ==
  /\ \A i \in 1..Len(conversion_log) :
        conversion_log[i].converted_count = conversion_log[i].expected_count
  /\ conversion_errors = <<>>

\* The columns whose non-missing cells have more than one runtime type
MixedColumns(tbl) ==
  {tbl[k].name : k \in {i \in 1..Len(tbl) :
     \E a, b \in 1..Len(tbl[i].cells) :
        /\ ~IsMissing(tbl[i].cells[a])
        /\ ~IsMissing(tbl[i].cells[b])
        /\ tbl[i].cells[a].t # tbl[i].cells[b].t}}

\* A run with no renames and no value rules has ended
EmptyRunDone ==
  pc = "Done" /\ value_changes = <<>> /\ column_renames = NoRenames

\* C4 as stated: with no renames and no rules the result equals the table
\* and the error list is empty, also for a table with a mixed-type column.
C4_EmptyRunNoErrors ==
  EmptyRunDone =>
    /\ result_df = df
    /\ type_errors = <<>>
    /\ conversion_errors = <<>>

\* C4 amended: with no renames and no rules the result equals the table,
\* nothing is logged, and the error list holds exactly one consistency
\* error per column of the table whose non-missing cells have more than one
\* runtime type; it is empty when the table has no such column.
C4_EmptyRunIdentity ==
  EmptyRunDone =>
    /\ has_result
    /\ result_df = df
    /\ conversion_log = <<>>
    /\ conversion_errors = <<>>
    /\ {type_errors[i] : i \in 1..Len(type_errors)} = MixedColumns(df)
    /\ Len(type_errors) = Cardinality(MixedColumns(df))

C4_Witness ==
  EmptyRunDone /\ has_result /\ MixedColumns(df) # {} /\ type_errors # <<>>

\* C5 as stated: a run that repeats the previous run with the same rules
\* reports matched_count = 0 for every rule.
C5_SecondRunCountsZero ==
  (pc = "Done" /\ rerun) =>
    \A i \in 1..Len(conversion_log) : conversion_log[i].converted_count = 0

\* C5 amended: every run starts from a copy of the original table, so a run
\* that repeats the previous run with the same rules reports, rule by rule,
\* the same matched_count as the previous run.
C5_SecondRunSameLog ==
  (pc = "Done" /\ rerun) => conversion_log = prev_log

C5_Witness ==
  /\ pc = "Done"
  /\ rerun
  /\ \E i \in 1..Len(conversion_log) : conversion_log[i].converted_count > 0
  /\ \E i \in 1..Len(prev_log) : prev_log[i].converted_count > 0

\* The key of the rule declared last for the column
LastDeclaredKey(column) ==
  LET at == {i \in 1..Len(declared) : declared[i][1] = column}
  IN declared[CHOOSE i \in at : \A j \in at : j <= i][2]

TypeOfRule(vc, column, key) ==
  LET changes == ChangesOf(vc, column)
  IN changes[CHOOSE j \in 1..Len(changes) : changes[j].key = key].type

\* C6: the column-wide cast of a column uses the target type of the rule
\* declared last for that column, also when that declaration re-declares
\* a key that already had a rule.
C6_CastUsesLastDeclared ==
  pc \in {"CastColumns", "Rename", "CheckConsistency", "Done"} =>
    \A c \in DOMAIN cast_types :
       cast_types[c] = TypeOfRule(value_changes, c, LastDeclaredKey(c))

\* C7: every value rule translated from a mapping-table row whose
\* col_original is a column of the table is applied by the run (a log entry
\* for its old value is recorded), also when col_new differs.
C7_TableRulesApplied ==
  (pc = "Done" /\ applied_rows # <<>>) =>
    \A r \in 1..Len(applied_rows) :
       (RowHasRule(applied_rows[r])
          /\ applied_rows[r].col_original \in ColumnNames(df)) =>
         \E i \in 1..Len(conversion_log) :
            /\ conversion_log[i].old_val = applied_rows[r].original_value
            /\ conversion_log[i].column \in
                 {applied_rows[r].col_original, applied_rows[r].col_new}

\* A run with renames only has ended
RenameOnlyDone ==
  pc = "Done" /\ value_changes = <<>> /\ column_renames # NoRenames

\* C8: a run with a non-empty rename map and no value rules yields the same
\* number of columns and rows, the same column order and the same cells as
\* the original; only the names that are keys of the rename map change.
C8_RenameStructural ==
  RenameOnlyDone =>
    /\ has_result
    /\ Len(result_df) = Len(df)
    /\ \A i \in 1..Len(df) :
         /\ result_df[i].cells = df[i].cells
         /\ result_df[i].dtype = df[i].dtype
         /\ result_df[i].name =
              IF df[i].name \in DOMAIN column_renames
              THEN column_renames[df[i].name]
              ELSE df[i].name

C8_Witness ==
  /\ RenameOnlyDone
  /\ has_result
  /\ \E i \in 1..Len(df) : result_df[i].name # df[i].name

\* The rule's stored value is the raw text: its coercion to int failed
SoftFailedInt(change) == change.type = "int" /\ change.value.t = "str"

\* C9: when the only rule of a column declares int and its new value is
\* non-numeric text, the text is stored, written into the matching cells,
\* and the column-wide cast to int turns those cells into missing.
C9_SoftFailedCellsMissing ==
  pc = "Done" =>
    \A i \in 1..Len(value_changes) :
       (/\ value_changes[i].column \in ColumnNames(df)
        /\ Len(value_changes[i].changes) = 1
        /\ SoftFailedInt(value_changes[i].changes[1])) =>
         LET k == ColumnIndex(df, value_changes[i].column)
         IN \A j \in 1..Len(df[k].cells) :
               RuleMask(df[k], value_changes[i].changes[1].key)[j] =>
                 IsMissing(result_df[k].cells[j])

\* C10: a reset leaves the rename map empty, the value-rule map empty and
\* no cached result, all three at once, and the original table as it was.
C10_ResetAtomic ==
  [][reset_from'.done =>
       /\ column_renames' = NoRenames
       /\ value_changes' = <<>>
       /\ ~has_result'
       /\ result_df' = <<>>
       /\ df' = df]_vars

C10_Witness ==
  /\ reset_from.done
  /\ reset_from.renames > 0
  /\ reset_from.rules > 0
  /\ reset_from.had_result

\* The declared rules, as <<column, key>>
RuleKeys(vc) ==
  UNION {{<<vc[i].column, vc[i].changes[j].key>> :
            j \in 1..Len(vc[i].changes)} : i \in 1..Len(vc)}

\* A step of one of add rename, add value rule, apply mapping table or
\* the pipeline run
ListedStep ==
  \/ AddRename
  \/ AddValueRule
  \/ ApplyConversionTable
  \/ RunInit
  \/ RunSubstitute
  \/ RunCastColumns
  \/ RunRename
  \/ RunCheckConsistency
  \/ RunStore

\* C11: among add rename, add value rule, apply mapping table, run pipeline
\* and reset, reset is the only operation after which a previously declared
\* rename or value rule is no longer in the session state.
C11_OnlyResetClears ==
  [][ListedStep =>
       /\ DOMAIN column_renames \subseteq DOMAIN column_renames'
       /\ RuleKeys(value_changes) \subseteq RuleKeys(value_changes')]_vars

\* Position of the latest declaration of the rule (column, key)
DeclaredAt(column, key) ==
  CHOOSE i \in 1..Len(declared) : declared[i] = <<column, key>>

\* Rows of the column of the original table holding a or b
CellsHolding(column, a, b) ==
  LET cells == df[ColumnIndex(df, column)].cells
  IN {j \in 1..Len(cells) : Str(cells[j]) \in {a, b}}

\* The log entries of the rule (column, key)
EntriesOf(column, key) ==
  {e \in 1..Len(conversion_log) :
     conversion_log[e].column = column /\ conversion_log[e].old_val = key}

\* Rule A (a -> b) and rule B (b -> c) of one column chain: every cell
\* originally a or b holds c after the substitution and B's matched count
\* counts all of them
Chained(column, A, B) ==
  LET hit == CellsHolding(column, A.key, B.key)
      cells == work[ColumnIndex(work, column)].cells
  IN /\ \A j \in hit : cells[j] = B.value
     /\ EntriesOf(column, B.key) # {}
     /\ \A e \in EntriesOf(column, B.key) :
          conversion_log[e].converted_count = Cardinality(hit)

\* The pairs <<A, B>> of rules of the column where A yields B's old value
ChainPairs(column) ==
  LET changes == ChangesOf(value_changes, column)
  IN {p \in (1..Len(changes)) \X (1..Len(changes)) :
        /\ p[1] # p[2]
        /\ changes[p[1]].value.t # "nan"
        /\ Str(changes[p[1]].value) = changes[p[2]].key}

\* C12: with rule A (a -> b) declared before rule B (b -> c) on the same
\* column, every cell originally a or b ends as c after substitution, and
\* B's matched_count counts the cells produced by A too.
C12_DeclaredOrderChains ==
  pc = "Substitute" =>
    \A i \in 1..Len(value_changes) :
      LET column == value_changes[i].column
          changes == value_changes[i].changes
      IN column \in ColumnNames(df) =>
           \A p \in ChainPairs(column) :
             DeclaredAt(column, changes[p[1]].key)
               < DeclaredAt(column, changes[p[2]].key)
             => Chained(column, changes[p[1]], changes[p[2]])

\* The same chaining holds whenever A also precedes B in the rule map
\* (no re-declaration has moved B's declaration behind A's)
C12_MapOrderChains ==
  pc = "Substitute" =>
    \A i \in 1..Len(value_changes) :
      LET column == value_changes[i].column
          changes == value_changes[i].changes
      IN column \in ColumnNames(df) =>
           \A p \in ChainPairs(column) :
             p[1] < p[2] => Chained(column, changes[p[1]], changes[p[2]])

\* A chain A, B in map order has been substituted
C12_MapOrderWitness ==
  /\ pc = "Substitute"
  /\ \E i \in 1..Len(value_changes) :
       /\ value_changes[i].column \in ColumnNames(df)
       /\ \E p \in ChainPairs(value_changes[i].column) : p[1] < p[2]

\* The column as it entered the column-wide cast
BeforeCast(c) ==
  LET tbl == Substitute(df, value_changes).tbl
  IN tbl[ColumnIndex(tbl, c)]

\* C13: the column-wide cast to int never fails as a whole: every cell
\* that parses as a number is replaced by its truncated integer (3.7
\* becomes 3), every other cell becomes missing, and afterwards the column
\* holds only integers and missing values.
C13_IntCastTruncates ==
  pc = "CastColumns" =>
    \A c \in DOMAIN cast_types :
      cast_types[c] = "int" =>
        LET before == BeforeCast(c).cells
            after == work[ColumnIndex(work, c)].cells
        IN \A j \in 1..Len(after) :
             /\ after[j].t \in {"int", "nan"}
             /\ after[j] = IF IsMissing(ToNumeric(before[j])) THEN NaN
                           ELSE I(Trunc(Tenths(ToNumeric(before[j]))))

\* The column of the stored result that was column c of the original table
\* holds one runtime type and its label is not flagged
UniformAndUnflagged(c) ==
  LET col == result_df[ColumnIndex(df, c)]
  IN /\ Cardinality(TypeTags(col)) <= 1
     /\ \A e \in 1..Len(type_errors) : type_errors[e] # col.name

\* C14: for every column with at least one value rule (each carries a
\* declared type), the column-wide cast runs after substitution and before
\* the consistency check, so at the end of the run all non-missing cells
\* of that column share one runtime type and the check does not flag it.
C14_RuledColumnsUniform ==
  pc = "Done" =>
    \A c \in DOMAIN cast_types : UniformAndUnflagged(c)

\* The same holds for every ruled column whose cast did not raise
C14_UniformUnlessCastRaised ==
  pc = "Done" =>
    \A c \in DOMAIN cast_types :
      ~(cast_types[c] = "int" /\ Int64Raises(BeforeCast(c)))
        => UniformAndUnflagged(c)

\* A ruled column of mixed types went through a cast that did not raise
C14_CastWitness ==
  /\ pc = "Done"
  /\ \E c \in DOMAIN cast_types :
       /\ ~(cast_types[c] = "int" /\ Int64Raises(BeforeCast(c)))
       /\ Cardinality(TypeTags(BeforeCast(c))) > 1

\* C15: a run has no effect on its inputs: over every step of a run, with
\* or without errors, the original table, the rename map and the value-rule
\* map are exactly as before; only the cached result changes.
C15_RunKeepsInputs ==
  [][pc' # "Idle" =>
       /\ df' = df
       /\ column_renames' = column_renames
       /\ value_changes' = value_changes]_vars

\* A run with renames and rules has ended with errors reported and a
\* stored result that differs from the original table
C15_Witness ==
  /\ pc = "Done"
  /\ has_result
  /\ result_df # df
  /\ column_renames # NoRenames
  /\ value_changes # <<>>
  /\ type_errors # <<>> \/ conversion_errors # <<>>

====
